---- MODULE Spec2Model ----
(***************************************************************************)
(* Model of src/app.py: the single-job transcription service.              *)
(*                                                                         *)
(* The module-level dictionary _job (running, events, result, filename)    *)
(* and the cache directory are shared by the Flask request threads         *)
(* (app.run(threaded=True)), the pipeline threads started by start() and   *)
(* the /events generators.  _job_lock is created at line 23 and is never   *)
(* acquired anywhere in the file, so every statement that touches the      *)
(* shared state is a step of its own and the steps of different threads    *)
(* interleave freely.                                                      *)
(*                                                                         *)
(* Text is a sequence of one-character strings.  Seconds are counted in    *)
(* tenths (1.0 s = 10), thresholds in tenths (0.3 = 3).                    *)
(***************************************************************************)
EXTENDS Integers, Sequences, FiniteSets, TLC

VARIABLES
    running,    \* _job["running"]
    events,     \* _job["events"]: the list object currently stored there
    result,     \* _job["result"]
    filename,   \* _job["filename"]
    cacheDir,   \* CACHE_DIR exists on disk
    cache,      \* the content of CACHE_DIR, per cache key
    req,        \* the threads serving POST /start
    task,       \* the threads running _run_job
    clr,        \* the thread serving POST /clear-cache
    getr,       \* the thread serving GET /result
    sub,        \* the /events generators
    lastResp,   \* the response the step just taken returned to a client
    started     \* how many start requests have been accepted so far

vars == <<running, events, result, filename, cacheDir, cache,
          req, task, clr, getr, sub, lastResp, started>>

job == <<running, events, result, filename>>
disk == <<cacheDir, cache>>

-----------------------------------------------------------------------------
(* Bounds of the model *)

\* start requests accepted in one behaviour
MaxStarts == 2

\* events the log holds at most (a job alone emits 9 and its heartbeats)
MaxLog == 10

\* heartbeats detect_slides may emit in one run (one per 30 s of scene detection)
MaxHeartbeats == 1

\* the threads of each kind that exist at once
Reqs == {"r1", "r2"}
Tasks == {"t1", "t2"}
Subs == {"s1"}

\* Python's None, and a value that is not None
None == <<>>
Some(v) == <<v>>

-----------------------------------------------------------------------------
(* Text helpers (Python str methods and the re calls of the source) *)

IsSpace(c) == c \in {" ", "\n", "\t"}

RECURSIVE LStrip(_)
LStrip(s) == IF s # <<>> /\ IsSpace(Head(s)) THEN LStrip(Tail(s)) ELSE s

RECURSIVE RStrip(_)
RStrip(s) ==
    IF s # <<>> /\ IsSpace(s[Len(s)]) THEN RStrip(SubSeq(s, 1, Len(s) - 1)) ELSE s

\* str.strip()
Strip(s) == LStrip(RStrip(s))

\* s[:n]
Take(s, n) == SubSeq(s, 1, IF Len(s) < n THEN Len(s) ELSE n)

Min(a, b) == IF a < b THEN a ELSE b
Max(a, b) == IF a > b THEN a ELSE b

-----------------------------------------------------------------------------
(* _url_hash *)

Letters == {"a", "b", "c", "d", "e", "f", "g", "h", "i", "j", "k", "l", "m",
            "n", "o", "p", "q", "r", "s", "t", "u", "v", "w", "x", "y", "z",
            "A", "B", "C", "D", "E", "F", "G", "H", "I", "J", "K", "L", "M",
            "N", "O", "P", "Q", "R", "S", "T", "U", "V", "W", "X", "Y", "Z"}
Digits == {"0", "1", "2", "3", "4", "5", "6", "7", "8", "9"}

\* \w
IsWord(c) == c \in Letters \cup Digits \cup {"_"}

\* [\w-]
IsIdChar(c) == IsWord(c) \/ c = "-"

\* the pattern p occurs in s at index i
PrefixAt(s, i, p) ==
    /\ i + Len(p) - 1 <= Len(s)
    /\ \A j \in 1..Len(p) : s[i + j - 1] = p[j]

YtIdLen == 11

YtPrefixes == { <<"v", "=">>, <<"y", "o", "u", "t", "u", ".", "b", "e", "/">> }

\* (?:v=|youtu\.be/)([\w-]{11}) matches s at index i after the prefix p
YtMatchAt(s, i, p) ==
    /\ PrefixAt(s, i, p)
    /\ i + Len(p) + YtIdLen - 1 <= Len(s)
    /\ \A j \in 0..(YtIdLen - 1) : IsIdChar(s[i + Len(p) + j])

\* the start indexes and prefixes of the matches of the first pattern in s
YtMatches(s) == { m \in (1..Len(s)) \X YtPrefixes : YtMatchAt(s, m[1], m[2]) }

\* re.search returns the leftmost match; group(1) is the 11 characters
YtGroup(s) ==
    LET m == CHOOSE x \in YtMatches(s) : \A y \in YtMatches(s) : x[1] <= y[1]
    IN  SubSeq(s, m[1] + Len(m[2]), m[1] + Len(m[2]) + YtIdLen - 1)

IgPrefixes ==
    { <<"i", "n", "s", "t", "a", "g", "r", "a", "m", ".", "c", "o", "m", "/",
        "r", "e", "e", "l", "/">>,
      <<"i", "n", "s", "t", "a", "g", "r", "a", "m", ".", "c", "o", "m", "/",
        "p", "/">> }

\* instagram\.com/(?:reel|p)/([\w-]+) matches s at index i after the prefix p
IgMatchAt(s, i, p) ==
    /\ PrefixAt(s, i, p)
    /\ i + Len(p) <= Len(s)
    /\ IsIdChar(s[i + Len(p)])

IgMatches(s) == { m \in (1..Len(s)) \X IgPrefixes : IgMatchAt(s, m[1], m[2]) }

\* the end of the longest run of [\w-] that starts at index i (the + is greedy)
RECURSIVE RunEnd(_, _)
RunEnd(s, i) == IF i < Len(s) /\ IsIdChar(s[i + 1]) THEN RunEnd(s, i + 1) ELSE i

IgGroup(s) ==
    LET m == CHOOSE x \in IgMatches(s) : \A y \in IgMatches(s) : x[1] <= y[1]
        b == m[1] + Len(m[2])
    IN  SubSeq(s, b, RunEnd(s, b))

\* url.split("?")[0]
RECURSIVE BeforeQuery(_)
BeforeQuery(s) ==
    IF s = <<>> \/ Head(s) = "?" THEN <<>> ELSE <<Head(s)>> \o BeforeQuery(Tail(s))

\* a lone surrogate code point (json.loads makes one of "\\ud800"): one
\* character, not a word character, that UTF-8 cannot encode
Surrogate == "U+D800"

\* hashlib.sha256(key.encode()).hexdigest()[:16]: the digest of key, taken as
\* free of collisions; key.encode() raises UnicodeEncodeError on a surrogate
Sha16(key) ==
    IF \E i \in 1..Len(key) : key[i] = Surrogate
    THEN <<"UnicodeEncodeError", key>>
    ELSE <<"sha256", key>>

\* the call has raised instead of returning a digest
Raises(v) == v[1] = "UnicodeEncodeError"

_url_hash(url) ==
    Sha16(IF YtMatches(url) # {} THEN YtGroup(url)
          ELSE IF IgMatches(url) # {} THEN IgGroup(url)
          ELSE BeforeQuery(url))

-----------------------------------------------------------------------------
(* merge_transcript and _format_output *)

DigitChar(n) == <<"0", "1", "2", "3", "4", "5", "6", "7", "8", "9">>[n + 1]

\* f"{n:02d}" for 0 <= n < 100
TwoDigits(n) == <<DigitChar(n \div 10), DigitChar(n % 10)>>

\* fmt_ts, the argument in tenths of a second
fmt_ts(t) ==
    LET seconds == t \div 10
        h == seconds \div 3600
        m == (seconds % 3600) \div 60
        sec == seconds % 60
    IN  TwoDigits(h) \o <<":">> \o TwoDigits(m) \o <<":">> \o TwoDigits(sec)

SlideChange ==
    <<"-", "-", "-", " ", "S", "L", "I", "D", "E", " ",
      "C", "H", "A", "N", "G", "E", " ", "-", "-", "-">>

\* f"\n[{fmt_ts(ts)}] --- SLIDE CHANGE ---\n"
MarkerLine(t) == <<"\n", "[">> \o fmt_ts(t) \o <<"]", " ">> \o SlideChange \o <<"\n">>

\* "--- SLIDE CHANGE ---" in line
IsMarkerLine(line) == \E i \in 1..Len(line) : PrefixAt(line, i, SlideChange)

\* the while loop of line 209 with < in place of <=
RECURSIVE InsertMarkersStrict(_, _, _, _)
InsertMarkersStrict(lines, slide_times, slide_idx, mid2) ==
    IF slide_idx < Len(slide_times) /\ 2 * slide_times[slide_idx + 1] < mid2
    THEN InsertMarkersStrict(Append(lines, MarkerLine(slide_times[slide_idx + 1])),
                             slide_times, slide_idx + 1, mid2)
    ELSE <<lines, slide_idx>>

\* the second while loop of merge_transcript, and the one inside the for loop
\* when mid2 is twice the midpoint of the segment: returns <<lines, slide_idx>>
RECURSIVE InsertMarkers(_, _, _, _)
InsertMarkers(lines, slide_times, slide_idx, mid2) ==
    IF slide_idx < Len(slide_times) /\ 2 * slide_times[slide_idx + 1] <= mid2
    THEN InsertMarkers(Append(lines, MarkerLine(slide_times[slide_idx + 1])),
                       slide_times, slide_idx + 1, mid2)
    ELSE <<lines, slide_idx>>

RECURSIVE RemainingMarkers(_, _, _)
RemainingMarkers(lines, slide_times, slide_idx) ==
    IF slide_idx < Len(slide_times)
    THEN RemainingMarkers(Append(lines, MarkerLine(slide_times[slide_idx + 1])),
                          slide_times, slide_idx + 1)
    ELSE lines

\* the for loop of merge_transcript from segment i on
RECURSIVE WalkSegments(_, _, _, _, _)
WalkSegments(segments, slide_times, i, lines, slide_idx) ==
    IF i > Len(segments)
    THEN RemainingMarkers(lines, slide_times, slide_idx)
    ELSE LET seg == segments[i]
             r == InsertMarkers(lines, slide_times, slide_idx, seg.start + seg.end)
         IN  WalkSegments(segments, slide_times, i + 1, Append(r[1], seg.text), r[2])

\* merge_transcript without lines 202-205
MergeLinesNoSynthetic(segments, slide_times) ==
    WalkSegments(segments, slide_times, 1, <<>>, 0)

\* the list lines of merge_transcript when its loops are done
MergeLines(segments, slide_times) ==
    LET first == IF slide_times # <<>> /\ slide_times[1] > 10 THEN <<MarkerLine(0)>>
                 ELSE IF slide_times = <<>> /\ segments # <<>> THEN <<MarkerLine(0)>>
                 ELSE <<>>
    IN  WalkSegments(segments, slide_times, 1, first, 0)

\* sep.join(parts)
RECURSIVE Join(_, _)
Join(sep, parts) ==
    IF parts = <<>> THEN <<>>
    ELSE IF Len(parts) = 1 THEN parts[1]
    ELSE parts[1] \o sep \o Join(sep, Tail(parts))

\* the for loop of _format_output from line i on
RECURSIVE FormatFrom(_, _, _, _)
FormatFrom(lines, i, result_parts, current_text) ==
    IF i > Len(lines)
    THEN IF current_text # <<>>
         THEN Append(result_parts, Join(<<" ">>, current_text))
         ELSE result_parts
    ELSE IF IsMarkerLine(lines[i])
         THEN FormatFrom(lines, i + 1,
                         Append(IF current_text # <<>>
                                THEN Append(result_parts, Join(<<" ">>, current_text))
                                ELSE result_parts,
                                Strip(lines[i])),
                         <<>>)
         ELSE LET stripped == Strip(lines[i])
              IN  FormatFrom(lines, i + 1, result_parts,
                             IF stripped # <<>> THEN Append(current_text, stripped)
                             ELSE current_text)

_format_output(lines) == Join(<<"\n">>, FormatFrom(lines, 1, <<>>, <<>>)) \o <<"\n">>

\* the value merge_transcript returns (its two _emit calls are steps of the task)
merge_transcript(segments, slide_times) ==
    _format_output(MergeLines(segments, slide_times))

-----------------------------------------------------------------------------
(* The file name _run_job derives from the title, lines 272-277 *)

\* re.sub(r'[^\w\s-]', '', title)
RECURSIVE DropPunctuation(_)
DropPunctuation(s) ==
    IF s = <<>> THEN <<>>
    ELSE (IF IsIdChar(Head(s)) \/ IsSpace(Head(s)) THEN <<Head(s)>> ELSE <<>>)
         \o DropPunctuation(Tail(s))

\* re.sub(r'\s+', '_', s)
RECURSIVE CollapseSpaces(_)
CollapseSpaces(s) ==
    IF s = <<>> THEN <<>>
    ELSE IF IsSpace(Head(s)) THEN <<"_">> \o CollapseSpaces(LStrip(s))
    ELSE <<Head(s)>> \o CollapseSpaces(Tail(s))

MaxTitleLen == 80

TranscriptSuffix ==
    <<"_", "t", "r", "a", "n", "s", "c", "r", "i", "p", "t", ".", "t", "x", "t">>

SafeFilename(title) ==
    CollapseSpaces(Take(Strip(DropPunctuation(title)), MaxTitleLen)) \o TranscriptSuffix

-----------------------------------------------------------------------------
(* Requests, external tools and their outcomes *)

\* list.sort() of the timestamps, by insertion
RECURSIVE Insert(_, _)
Insert(x, s) ==
    IF s = <<>> THEN <<x>>
    ELSE IF x <= Head(s) THEN <<x>> \o s
    ELSE <<Head(s)>> \o Insert(x, Tail(s))

RECURSIVE SortAsc(_)
SortAsc(s) == IF s = <<>> THEN <<>> ELSE Insert(Head(s), SortAsc(Tail(s)))

UrlWatch ==
    <<"y", "t", ".", "c", "o", "m", "/", "w", "a", "t", "c", "h", "?", "v", "=",
      "d", "Q", "w", "4", "w", "9", "W", "g", "X", "c", "Q", "&", "t", "=", "1">>

UrlShort ==
    <<" ", "y", "o", "u", "t", "u", ".", "b", "e", "/",
      "d", "Q", "w", "4", "w", "9", "W", "g", "X", "c", "Q", "?", "s", "i", "=", "x">>

\* the JSON bodies POST /start is called with; threshold is <<"num", tenths>> or
\* a value float() rejects
StartInputs ==
    { [url |-> UrlWatch, threshold |-> <<"num", 3>>, model |-> "medium", detect_slides |-> TRUE],
      [url |-> UrlShort, threshold |-> <<"num", 9>>, model |-> "huge", detect_slides |-> FALSE],
      [url |-> <<>>, threshold |-> <<"num", 3>>, model |-> "medium", detect_slides |-> TRUE],
      [url |-> <<" ", " ">>, threshold |-> <<"num", 3>>, model |-> "tiny", detect_slides |-> FALSE],
      [url |-> UrlWatch, threshold |-> <<"str", "abc">>, model |-> "tiny", detect_slides |-> TRUE] }

ModelNames == {"tiny", "small", "medium", "large"}

\* the cache keys the requests can lead to
Keys == { _url_hash(Strip(i.url)) : i \in { j \in StartInputs : Strip(j.url) # <<>> } }

\* what yt-dlp --print title writes to stdout
TitleOutputs == { <<"T", ":", " ", " ", "A", "I", "\n">> }

DefaultTitle == <<"t", "r", "a", "n", "s", "c", "r", "i", "p", "t">>

\* the pts_time values ffmpeg reports, in the order it reports them
SceneOutputs == { <<60, 20>> }

\* result["segments"] of whisper
WhisperOutputs ==
    { << [start |-> 0, end |-> 30, text |-> <<" ", "I", "n", "t", "r", "o">>] >> }

\* lines 173-176
NormalizeSegments(raw) ==
    [i \in 1..Len(raw) |->
        [start |-> raw[i].start, end |-> raw[i].end, text |-> Strip(raw[i].text)]]

-----------------------------------------------------------------------------
(* State *)

Ev(etype, msg) == <<etype, msg>>

\* the event of line 77
UsingCachedDownload == Ev("progress", <<"Using cached download.">>)

\* a generator that returns on a done event only and streams past an error
IsDoneOnly(e) == e[1] = "done"

\* line 342: etype in ("done", "error")
IsTerminal(e) == e[1] \in {"done", "error"}

NoEntry == [dir |-> FALSE, video |-> FALSE, audio |-> FALSE, meta |-> None,
            whisper |-> [m \in ModelNames |-> None]]

IdleReq == [pc |-> "idle", args |-> None]

OffTask == [pc |-> "off", args |-> None, cache_key |-> None, media |-> None,
            title |-> None, slides |-> None, segs |-> None, hb |-> 0]

OffSub == [pc |-> "off", sent |-> 0, cur |-> TRUE, evts |-> <<>>, out |-> <<>>,
           late |-> FALSE, cur0 |-> TRUE, log0 |-> <<>>]

NoResp == [op |-> "none", code |-> 0, body |-> None]

Init ==
    /\ running = FALSE
    /\ events = <<>>
    /\ result = None
    /\ filename = None
    /\ cacheDir = TRUE
    /\ cache = [k \in Keys |-> NoEntry]
    /\ req = [r \in Reqs |-> IdleReq]
    /\ task = [t \in Tasks |-> OffTask]
    /\ clr = "idle"
    /\ getr = "idle"
    /\ sub = [s \in Subs |-> OffSub]
    /\ lastResp = NoResp
    /\ started = 0

-----------------------------------------------------------------------------
(* _emit, and the list objects behind _job["events"] *)

\* line 61: _job["events"].append((etype, msg))
_emit(etype, msg) ==
    /\ Len(events) < MaxLog
    /\ events' = Append(events, Ev(etype, msg))

\* the list a generator holds in evts: the one now in _job["events"], or one
\* that start() has replaced since (nothing appends to a replaced list any
\* more, so its content at the replacement is kept with the generator)
ListOf(g) == IF g.cur THEN events ELSE g.evts
List0Of(g) == IF g.cur0 THEN events ELSE g.log0

\* line 321: _job["events"] = []; the generators keep the list they hold
ReplaceEvents ==
    /\ events' = <<>>
    /\ sub' = [s \in Subs |->
                 LET g == sub[s]
                     held == g.pc \in {"loop", "ended"} /\ g.cur
                     held0 == g.out # <<>> /\ g.cur0
                 IN  [g EXCEPT !.evts = IF held THEN events ELSE @,
                               !.cur = IF held THEN FALSE ELSE @,
                               !.log0 = IF held0 THEN events ELSE @,
                               !.cur0 = IF held0 THEN FALSE ELSE @]]

-----------------------------------------------------------------------------
(* POST /start, lines 298-328 *)

\* float(data.get("threshold", 0.3)) raises ValueError
BadThreshold(data) == data.threshold[1] # "num"

\* line 313: max(0.1, min(0.8, threshold))
ClampThreshold(t) == Max(1, Min(8, t))

\* lines 316-317
ValidModel(m) == IF m \in {"tiny", "small", "medium", "large"} THEN m ELSE "medium"

\* start() with the URL validated ahead of the check of running
StartVerdictUrlFirst(isRunning, data) ==
    IF BadThreshold(data) THEN 500
    ELSE IF Strip(data.url) = <<>> THEN 400
    ELSE IF isRunning THEN 409
    ELSE 0

\* the status start() answers with before it touches _job, 0 when it goes on to
\* line 320: lines 300-310 in their order
StartVerdict(isRunning, data) ==
    IF isRunning THEN 409
    ELSE IF BadThreshold(data) THEN 500
    ELSE IF Strip(data.url) = <<>> THEN 400
    ELSE 0

\* a refusal that also drops the stored result
StartRejectResetting(r, code) ==
    /\ lastResp' = [op |-> "start", code |-> code, body |-> None]
    /\ result' = None
    /\ UNCHANGED <<running, events, filename, disk, req, task, clr, getr, sub, started>>

\* a return of lines 301 and 310 (and the 500 Flask makes of an exception):
\* the request thread ends, nothing else changes
StartReject(r, code) ==
    /\ lastResp' = [op |-> "start", code |-> code, body |-> None]
    /\ UNCHANGED <<job, disk, req, task, clr, getr, sub, started>>

\* lines 300-310: the request is refused
StartRefuse(r, data) ==
    /\ req[r].pc = "idle"
    /\ StartVerdict(running, data) # 0
    /\ StartReject(r, StartVerdict(running, data))

\* lines 300-317: the request passes the checks and is normalised
StartAccept(r, data) ==
    /\ req[r].pc = "idle"
    /\ StartVerdict(running, data) = 0
    /\ started < MaxStarts
    /\ started' = started + 1
    /\ req' = [req EXCEPT ![r] =
                 [pc |-> "set_running",
                  args |-> Some([url |-> Strip(data.url),
                                 threshold |-> ClampThreshold(data.threshold[2]),
                                 model |-> ValidModel(data.model),
                                 detect_slides |-> data.detect_slides])]]
    /\ lastResp' = NoResp
    /\ UNCHANGED <<job, disk, task, clr, getr, sub>>

\* line 320
StartSetRunning(r) ==
    /\ req[r].pc = "set_running"
    /\ running' = TRUE
    /\ req' = [req EXCEPT ![r].pc = "reset_events"]
    /\ lastResp' = NoResp
    /\ UNCHANGED <<events, result, filename, disk, task, clr, getr, sub, started>>

\* line 321
StartResetEvents(r) ==
    /\ req[r].pc = "reset_events"
    /\ ReplaceEvents
    /\ req' = [req EXCEPT ![r].pc = "reset_result"]
    /\ lastResp' = NoResp
    /\ UNCHANGED <<running, result, filename, disk, task, clr, getr, started>>

\* line 322
StartResetResult(r) ==
    /\ req[r].pc = "reset_result"
    /\ result' = None
    /\ req' = [req EXCEPT ![r].pc = "reset_filename"]
    /\ lastResp' = NoResp
    /\ UNCHANGED <<running, events, filename, disk, task, clr, getr, sub, started>>

\* line 323
StartResetFilename(r) ==
    /\ req[r].pc = "reset_filename"
    /\ filename' = None
    /\ req' = [req EXCEPT ![r].pc = "spawn"]
    /\ lastResp' = NoResp
    /\ UNCHANGED <<running, events, result, disk, task, clr, getr, sub, started>>

FreeTasks == { t \in Tasks : task[t].pc = "off" }

\* lines 325-328: the pipeline thread starts, the request is answered
StartThread(r) ==
    /\ req[r].pc = "spawn"
    /\ FreeTasks # {}
    /\ LET t == CHOOSE x \in FreeTasks : TRUE
       IN  task' = [task EXCEPT ![t] = [OffTask EXCEPT !.pc = "dl_mkdir",
                                                       !.args = req[r].args]]
    /\ req' = [req EXCEPT ![r] = IdleReq]
    /\ lastResp' = [op |-> "start", code |-> 200, body |-> None]
    /\ UNCHANGED <<job, disk, clr, getr, sub, started>>

-----------------------------------------------------------------------------
(* _run_job, lines 257-286, with the stages it calls *)

KeyOf(t) == task[t].cache_key[1]

Goto(t, pc) == [task EXCEPT ![t].pc = pc]

\* lines 280-284: the except clauses turn the exception into an error event;
\* the finally clause is the thread's next step
Raise(t, msg) ==
    /\ _emit("error", msg)
    /\ task' = [task EXCEPT ![t] = [OffTask EXCEPT !.pc = "finally"]]

CalledProcessError(tool) == <<"Error running command: ", tool>>
OtherError(what) == <<"Error: ", what>>

\* lines 259, 67-68: cache_key = _url_hash(url); video_dir.mkdir(exist_ok=True)
\* needs CACHE_DIR
DlMkdir(t) ==
    /\ task[t].pc = "dl_mkdir"
    /\ LET cache_key == _url_hash(task[t].args[1].url)
       IN  IF Raises(cache_key)
           THEN /\ Raise(t, OtherError("UnicodeEncodeError"))
                /\ UNCHANGED disk
           ELSE IF cacheDir
           THEN /\ cache' = [cache EXCEPT ![cache_key].dir = TRUE]
                /\ task' = [task EXCEPT ![t].pc = "dl_check",
                                        ![t].cache_key = Some(cache_key)]
                /\ UNCHANGED <<events, cacheDir>>
           ELSE /\ Raise(t, OtherError("FileNotFoundError"))
                /\ UNCHANGED disk
    /\ lastResp' = NoResp
    /\ UNCHANGED <<running, result, filename, req, clr, getr, sub, started>>

\* lines 89-90: video_dir / "video.mp4" and video_dir / "audio.wav"
MediaPaths(cache_key) ==
    [video |-> <<cache_key, "video.mp4">>, audio |-> <<cache_key, "audio.wav">>]

\* a cache check that never finds the download
MediaNeverCached(entry) == FALSE

\* lines 72-76: the metadata record is there and both files it names exist
MediaCached(entry) == entry.meta # None /\ entry.video /\ entry.audio

\* lines 72-80
DlCheck(t) ==
    /\ task[t].pc = "dl_check"
    /\ LET entry == cache[KeyOf(t)]
       IN  IF MediaCached(entry)
           THEN /\ _emit(UsingCachedDownload[1], UsingCachedDownload[2])
                /\ task' = [task EXCEPT ![t].pc = "detect",
                                        ![t].media = Some([video |-> entry.meta[1].video,
                                                           audio |-> entry.meta[1].audio]),
                                        ![t].title = Some(entry.meta[1].title)]
           ELSE /\ _emit("progress", <<"Downloading video...">>)
                /\ task' = Goto(t, "dl_fetch")
    /\ lastResp' = NoResp
    /\ UNCHANGED <<running, result, filename, disk, req, clr, getr, sub, started>>

\* a download that writes meta.json as soon as the video is there
DlFetchRecording(t) ==
    /\ task[t].pc = "dl_fetch"
    /\ \/ /\ cacheDir' = TRUE
          /\ \E stdout \in TitleOutputs :
                LET title == IF Strip(stdout) # <<>> THEN Strip(stdout) ELSE DefaultTitle
                IN  /\ cache' = [cache EXCEPT
                                   ![KeyOf(t)].dir = TRUE, ![KeyOf(t)].video = TRUE,
                                   ![KeyOf(t)].meta =
                                       Some([video |-> MediaPaths(KeyOf(t)).video,
                                             audio |-> MediaPaths(KeyOf(t)).audio,
                                             title |-> title])]
                    /\ task' = [task EXCEPT ![t].pc = "dl_ffmpeg",
                                            ![t].media = Some(MediaPaths(KeyOf(t))),
                                            ![t].title = Some(title)]
          /\ UNCHANGED events
       \/ /\ Raise(t, CalledProcessError("yt-dlp"))
          /\ UNCHANGED disk
    /\ lastResp' = NoResp
    /\ UNCHANGED <<running, result, filename, req, clr, getr, sub, started>>

\* lines 83-105: yt-dlp prints the title (title_proc.stdout.strip() or
\* "transcript"), then yt-dlp writes video.mp4 (making the directories of its
\* output path), or exits non-zero
DlFetch(t) ==
    /\ task[t].pc = "dl_fetch"
    /\ \/ /\ cacheDir' = TRUE
          /\ cache' = [cache EXCEPT ![KeyOf(t)].dir = TRUE, ![KeyOf(t)].video = TRUE]
          /\ \E stdout \in TitleOutputs :
                task' = [task EXCEPT ![t].pc = "dl_ffmpeg",
                                     ![t].media = Some(MediaPaths(KeyOf(t))),
                                     ![t].title = Some(IF Strip(stdout) # <<>>
                                                       THEN Strip(stdout)
                                                       ELSE DefaultTitle)]
          /\ UNCHANGED events
       \/ /\ Raise(t, CalledProcessError("yt-dlp"))
          /\ UNCHANGED disk
    /\ lastResp' = NoResp
    /\ UNCHANGED <<running, result, filename, req, clr, getr, sub, started>>

\* lines 108-116: ffmpeg reads video.mp4 and writes audio.wav, or exits non-zero
DlExtract(t) ==
    /\ task[t].pc = "dl_ffmpeg"
    /\ \/ /\ cache[KeyOf(t)].dir /\ cache[KeyOf(t)].video
          /\ cache' = [cache EXCEPT ![KeyOf(t)].audio = TRUE]
          /\ task' = Goto(t, "dl_meta")
          /\ UNCHANGED events
       \/ /\ Raise(t, CalledProcessError("ffmpeg"))
          /\ UNCHANGED cache
    /\ lastResp' = NoResp
    /\ UNCHANGED <<running, result, filename, cacheDir, req, clr, getr, sub, started>>

\* lines 118-123: meta.json is written, then "Download complete." is emitted
DlMeta(t) ==
    /\ task[t].pc = "dl_meta"
    /\ IF cache[KeyOf(t)].dir
       THEN /\ cache' = [cache EXCEPT ![KeyOf(t)].meta =
                                  Some([video |-> task[t].media[1].video,
                                        audio |-> task[t].media[1].audio,
                                        title |-> task[t].title[1]])]
            /\ _emit("progress", <<"Download complete.">>)
            /\ task' = Goto(t, "detect")
       ELSE /\ Raise(t, OtherError("FileNotFoundError"))
            /\ UNCHANGED cache
    /\ lastResp' = NoResp
    /\ UNCHANGED <<running, result, filename, cacheDir, req, clr, getr, sub, started>>

\* lines 263-267, 130-140: the scene detector is started on the video, or the
\* stage is skipped
Detect(t) ==
    /\ task[t].pc = "detect"
    /\ IF task[t].args[1].detect_slides
       THEN /\ _emit("progress", <<"Detecting slide changes (threshold=0.",
                                   DigitChar(task[t].args[1].threshold), ")...">>)
            /\ \E out \in SceneOutputs :
                  task' = [task EXCEPT ![t].pc = "scan", ![t].slides = Some(out)]
       ELSE /\ _emit("progress", <<"Slide detection disabled, skipping.">>)
            /\ task' = [task EXCEPT ![t].pc = "tr_check", ![t].slides = Some(<<>>)]
    /\ lastResp' = NoResp
    /\ UNCHANGED <<running, result, filename, disk, req, clr, getr, sub, started>>

\* lines 148-151: 30 seconds have passed, n timestamps are parsed so far
Heartbeat(t) ==
    /\ task[t].pc = "scan"
    /\ task[t].hb < MaxHeartbeats
    /\ \E n \in 0..Len(task[t].slides[1]) :
          _emit("progress", <<"Detecting slide changes... ", DigitChar(n),
                                 " transitions so far">>)
    /\ task' = [task EXCEPT ![t].hb = @ + 1]
    /\ lastResp' = NoResp
    /\ UNCHANGED <<running, result, filename, disk, req, clr, getr, sub, started>>

\* lines 152-155
DetectDone(t) ==
    /\ task[t].pc = "scan"
    /\ _emit("progress", <<"Detecting slide changes... found ",
                           DigitChar(Len(task[t].slides[1])), " transitions">>)
    /\ task' = [task EXCEPT ![t].pc = "tr_check", ![t].hb = 0,
                            ![t].slides = Some(SortAsc(@[1]))]
    /\ lastResp' = NoResp
    /\ UNCHANGED <<running, result, filename, disk, req, clr, getr, sub, started>>

\* lines 161-166
TrCheck(t) ==
    /\ task[t].pc = "tr_check"
    /\ LET cached == cache[KeyOf(t)].whisper[task[t].args[1].model]
       IN  IF cached # None
           THEN /\ _emit("progress", <<"Using cached transcription.">>)
                /\ task' = [task EXCEPT ![t].pc = "merge", ![t].segs = cached,
                                        ![t].args = None, ![t].cache_key = None,
                                        ![t].media = None]
           ELSE /\ _emit("progress", <<"Transcribing audio with Whisper (",
                                       task[t].args[1].model, " model)...">>)
                /\ task' = Goto(t, "tr_run")
    /\ lastResp' = NoResp
    /\ UNCHANGED <<running, result, filename, disk, req, clr, getr, sub, started>>

\* lines 168-176: whisper reads audio.wav and returns segments, or raises
TrRun(t) ==
    /\ task[t].pc = "tr_run"
    /\ \/ /\ cache[KeyOf(t)].audio
          /\ \E raw \in WhisperOutputs :
                task' = [task EXCEPT ![t].pc = "tr_write",
                                     ![t].segs = Some(NormalizeSegments(raw))]
          /\ UNCHANGED events
       \/ Raise(t, OtherError("whisper"))
    /\ lastResp' = NoResp
    /\ UNCHANGED <<running, result, filename, disk, req, clr, getr, sub, started>>

\* lines 177-178
TrWrite(t) ==
    /\ task[t].pc = "tr_write"
    /\ IF cache[KeyOf(t)].dir
       THEN /\ cache' = [cache EXCEPT ![KeyOf(t)].whisper[task[t].args[1].model] =
                                         task[t].segs]
            /\ _emit("progress", <<"Transcription complete.">>)
            /\ task' = [task EXCEPT ![t].pc = "merge", ![t].args = None,
                                    ![t].cache_key = None, ![t].media = None]
       ELSE /\ Raise(t, OtherError("FileNotFoundError"))
            /\ UNCHANGED cache
    /\ lastResp' = NoResp
    /\ UNCHANGED <<running, result, filename, cacheDir, req, clr, getr, sub, started>>

\* line 184
MergeStart(t) ==
    /\ task[t].pc = "merge"
    /\ _emit("progress", <<"Merging transcript with slide markers...">>)
    /\ task' = Goto(t, "merge_done")
    /\ lastResp' = NoResp
    /\ UNCHANGED <<running, result, filename, disk, req, clr, getr, sub, started>>

\* line 222
MergeDone(t) ==
    /\ task[t].pc = "merge_done"
    /\ _emit("progress", <<"Merging transcript with slide markers... Done!">>)
    /\ task' = Goto(t, "set_result")
    /\ lastResp' = NoResp
    /\ UNCHANGED <<running, result, filename, disk, req, clr, getr, sub, started>>

\* lines 270, 276
SetResult(t) ==
    /\ task[t].pc = "set_result"
    /\ result' = Some(merge_transcript(task[t].segs[1], task[t].slides[1]))
    /\ task' = [task EXCEPT ![t].pc = "set_filename", ![t].segs = None,
                            ![t].slides = None]
    /\ lastResp' = NoResp
    /\ UNCHANGED <<running, events, filename, disk, req, clr, getr, sub, started>>

\* lines 273-274, 277
SetFilename(t) ==
    /\ task[t].pc = "set_filename"
    /\ filename' = Some(SafeFilename(task[t].title[1]))
    /\ task' = [task EXCEPT ![t].pc = "emit_done", ![t].title = None]
    /\ lastResp' = NoResp
    /\ UNCHANGED <<running, events, result, disk, req, clr, getr, sub, started>>

\* line 278
EmitDone(t) ==
    /\ task[t].pc = "emit_done"
    /\ _emit("done", <<"Done!">>)
    /\ task' = Goto(t, "finally")
    /\ lastResp' = NoResp
    /\ UNCHANGED <<running, result, filename, disk, req, clr, getr, sub, started>>

\* a thread that ends without the finally clause of lines 285-286
FinallySkipped(t) ==
    /\ task[t].pc = "finally"
    /\ task' = [task EXCEPT ![t] = OffTask]
    /\ lastResp' = NoResp
    /\ UNCHANGED <<job, disk, req, clr, getr, sub, started>>

\* line 286: the thread ends
Finally(t) ==
    /\ task[t].pc = "finally"
    /\ running' = FALSE
    /\ task' = [task EXCEPT ![t] = OffTask]
    /\ lastResp' = NoResp
    /\ UNCHANGED <<events, result, filename, disk, req, clr, getr, sub, started>>

-----------------------------------------------------------------------------
(* POST /clear-cache, lines 374-384 *)

\* clear_cache() without its check of running
ClearNeverRefused(isRunning) == FALSE

\* line 377
ClearRefused(isRunning) == isRunning

\* line 378: the request is answered, the cache is not touched
ClearReject ==
    /\ lastResp' = [op |-> "clear", code |-> 409, body |-> None]
    /\ UNCHANGED <<job, disk, req, task, clr, getr, sub, started>>

\* lines 377-378
ClearCheck ==
    /\ clr = "idle"
    /\ IF ClearRefused(running) THEN ClearReject
       ELSE /\ clr' = "rmtree"
            /\ lastResp' = NoResp
            /\ UNCHANGED <<job, disk, req, task, getr, sub, started>>

\* line 380: shutil.rmtree(CACHE_DIR); it raises when the directory is gone
ClearRmtree ==
    /\ clr = "rmtree"
    /\ IF cacheDir
       THEN /\ cacheDir' = FALSE
            /\ cache' = [k \in Keys |-> NoEntry]
            /\ clr' = "mkdir"
            /\ lastResp' = NoResp
       ELSE /\ clr' = "idle"
            /\ lastResp' = [op |-> "clear", code |-> 500, body |-> None]
            /\ UNCHANGED disk
    /\ UNCHANGED <<job, req, task, getr, sub, started>>

\* lines 381-382
ClearMkdir ==
    /\ clr = "mkdir"
    /\ cacheDir' = TRUE
    /\ clr' = "idle"
    /\ lastResp' = [op |-> "clear", code |-> 200, body |-> None]
    /\ UNCHANGED <<job, cache, req, task, getr, sub, started>>

-----------------------------------------------------------------------------
(* GET /result, lines 350-354 *)

\* line 352-353
ResultCheck ==
    /\ getr = "idle"
    /\ IF result = None
       THEN /\ lastResp' = [op |-> "result", code |-> 404, body |-> None]
            /\ UNCHANGED getr
       ELSE /\ getr' = "read"
            /\ lastResp' = NoResp
    /\ UNCHANGED <<job, disk, req, task, clr, sub, started>>

\* line 354
ResultRead ==
    /\ getr = "read"
    /\ getr' = "idle"
    /\ lastResp' = [op |-> "result", code |-> 200,
                    body |-> Some([transcript |-> result, filename |-> filename])]
    /\ UNCHANGED <<job, disk, req, task, clr, sub, started>>

-----------------------------------------------------------------------------
(* GET /events, lines 331-347: the generator *)

\* lines 335-337: a client connects, the generator runs to its first read of
\* _job["events"].  late records that the log then held a terminal event.
Subscribe(s) ==
    /\ sub[s].pc \in {"off", "ended"}
    /\ sub' = [sub EXCEPT ![s] = [OffSub EXCEPT !.pc = "loop",
                                               !.late = \E i \in 1..Len(events) :
                                                           IsTerminal(events[i])]]
    /\ lastResp' = NoResp
    /\ UNCHANGED <<job, disk, req, task, clr, getr, started>>

\* lines 338-343: one turn of the inner loop; out is what the client received,
\* log0 the list the first event came from
SubStep(s) ==
    /\ sub[s].pc = "loop"
    /\ LET g == sub[s]
           evts == ListOf(g)
       IN  IF g.sent < Len(evts)
           THEN sub' = [sub EXCEPT
                          ![s].out = Append(@, evts[g.sent + 1]),
                          ![s].sent = @ + 1,
                          ![s].pc = IF IsTerminal(evts[g.sent + 1]) THEN "ended" ELSE "loop",
                          ![s].cur0 = IF g.out = <<>> THEN g.cur ELSE @,
                          ![s].log0 = IF g.out = <<>> THEN g.evts ELSE @]
           ELSE sub' = [sub EXCEPT ![s].pc = "sleep", ![s].cur = TRUE, ![s].evts = <<>>]
    /\ lastResp' = NoResp
    /\ UNCHANGED <<job, disk, req, task, clr, getr, started>>

\* lines 344, 337: the sleep is over, evts = _job["events"] is read again
SubWake(s) ==
    /\ sub[s].pc = "sleep"
    /\ sub' = [sub EXCEPT ![s].pc = "loop", ![s].cur = TRUE, ![s].evts = <<>>]
    /\ lastResp' = NoResp
    /\ UNCHANGED <<job, disk, req, task, clr, getr, started>>

\* the client closes the connection
Unsubscribe(s) ==
    /\ sub[s].pc # "off"
    /\ sub' = [sub EXCEPT ![s] = OffSub]
    /\ lastResp' = NoResp
    /\ UNCHANGED <<job, disk, req, task, clr, getr, started>>

-----------------------------------------------------------------------------
(* The system *)

\* the request threads are alike: a new request goes to one idle thread of R
Idle(R) == { r \in R : req[r].pc = "idle" }

\* the steps of start() after a request has passed its checks
StartSteps(R) ==
    \/ \E r \in R : StartSetRunning(r)
    \/ \E r \in R : StartResetEvents(r)
    \/ \E r \in R : StartResetResult(r)
    \/ \E r \in R : StartResetFilename(r)
    \/ \E r \in R : StartThread(r)

\* requests that are accepted, and their steps
AcceptActs(R) ==
    \/ \E r \in Idle(R) : \E data \in StartInputs :
          r = (CHOOSE q \in Idle(R) : TRUE) /\ StartAccept(r, data)
    \/ StartSteps(R)

StartActs(R) ==
    \/ \E r \in Idle(R) : \E data \in StartInputs :
          r = (CHOOSE q \in Idle(R) : TRUE) /\ StartRefuse(r, data)
    \/ AcceptActs(R)

TaskActs ==
    \/ \E t \in Tasks : DlMkdir(t)
    \/ \E t \in Tasks : DlCheck(t)
    \/ \E t \in Tasks : DlFetch(t)
    \/ \E t \in Tasks : DlExtract(t)
    \/ \E t \in Tasks : DlMeta(t)
    \/ \E t \in Tasks : Detect(t)
    \/ \E t \in Tasks : Heartbeat(t)
    \/ \E t \in Tasks : DetectDone(t)
    \/ \E t \in Tasks : TrCheck(t)
    \/ \E t \in Tasks : TrRun(t)
    \/ \E t \in Tasks : TrWrite(t)
    \/ \E t \in Tasks : MergeStart(t)
    \/ \E t \in Tasks : MergeDone(t)
    \/ \E t \in Tasks : SetResult(t)
    \/ \E t \in Tasks : SetFilename(t)
    \/ \E t \in Tasks : EmitDone(t)
    \/ \E t \in Tasks : Finally(t)

ClearActs == ClearCheck \/ ClearRmtree \/ ClearMkdir

ResultActs == ResultCheck \/ ResultRead

SubActs(S) ==
    \/ \E s \in S : Subscribe(s)
    \/ \E s \in S : SubStep(s)
    \/ \E s \in S : SubWake(s)
    \/ \E s \in S : Unsubscribe(s)

Next == StartActs(Reqs) \/ TaskActs \/ ClearActs \/ ResultActs \/ SubActs(Subs)

\* every thread of the service
Spec == Init /\ [][Next]_vars

\* two request threads whose start requests are accepted, and the pipelines
\* they start
NextRace == AcceptActs(Reqs) \/ TaskActs
SpecRace == Init /\ [][NextRace]_vars

\* one thread per endpoint: start, result and clear-cache requests, one at a
\* time each, beside the pipeline
NextClient == StartActs({"r1"}) \/ TaskActs \/ ClearActs \/ ResultActs
SpecClient == Init /\ [][NextClient]_vars

\* one thread that starts jobs, the pipeline and the event streams
NextEvents == AcceptActs({"r1"}) \/ TaskActs \/ SubActs(Subs)
SpecEvents == Init /\ [][NextEvents]_vars

\* one thread that starts jobs, one after the other, and the pipeline
NextJobs == AcceptActs({"r1"}) \/ TaskActs
SpecJobs == Init /\ [][NextJobs]_vars

\* the same with the threads scheduled: a request thread that has passed the
\* checks of start() goes on, and a pipeline thread goes on (every external
\* call returns or fails)
SpecJobsFair ==
    Init /\ [][NextJobs]_vars /\ WF_vars(StartSteps({"r1"})) /\ WF_vars(TaskActs)

\* a segment as transcribe_audio returns it
Seg(start, end, text) == [start |-> start, end |-> end, text |-> text]

Intro == <<"I", "n", "t", "r", "o">>
HelloWorld == <<"H", "e", "l", "l", "o", " ", "w", "o", "r", "l", "d">>
SlideTwo == <<"T", "h", "i", "s", " ", "i", "s", " ", "s", "l", "i", "d", "e", " ",
              "t", "w", "o">>

\* the segment lists line 269 returns in the runs of merge_transcript that are
\* explored: none, one, several, with an empty text, out of time order
SegmentCases ==
    { <<>>,
      << Seg(0, 30, Intro) >>,
      << Seg(0, 50, HelloWorld), Seg(50, 100, SlideTwo) >>,
      << Seg(0, 20, <<"a">>), Seg(20, 40, <<"b">>), Seg(40, 60, <<"c">>) >>,
      << Seg(0, 20, <<"a">>), Seg(20, 40, <<>>), Seg(40, 100, <<"c">>) >>,
      << Seg(100, 120, <<"a">>), Seg(0, 20, <<"b">>) >>,
      << Seg(12, 12, <<"a">>), Seg(12, 13, <<"b">>) >> }

\* the sorted timestamps line 264 returns: none, before, at and after one
\* second, equal ones, on a midpoint, after the last segment
SlideCases ==
    { <<>>, <<0>>, <<10>>, <<11>>, <<60>>, <<75>>, <<5, 25>>, <<12, 12>>,
      <<30, 30, 50>>, <<10, 36000>>, <<3661 * 10>> }

\* a job at line 270: the download and the transcription came from the cache,
\* the scene detection has returned slides
InitMerge ==
    \E segs \in SegmentCases, slides \in SlideCases :
        LET key == _url_hash(Strip(UrlWatch))
            title == Strip(CHOOSE x \in TitleOutputs : TRUE)
        IN  /\ running = TRUE
            /\ events = << UsingCachedDownload,
                           Ev("progress", <<"Detecting slide changes (threshold=0.",
                                            DigitChar(3), ")...">>),
                           Ev("progress", <<"Detecting slide changes... found ",
                                            DigitChar(Len(slides)), " transitions">>),
                           Ev("progress", <<"Using cached transcription.">>) >>
            /\ result = None
            /\ filename = None
            /\ cacheDir = TRUE
            /\ cache = [k \in Keys |->
                          IF k = key
                          THEN [dir |-> TRUE, video |-> TRUE, audio |-> TRUE,
                                meta |-> Some([video |-> MediaPaths(key).video,
                                               audio |-> MediaPaths(key).audio,
                                               title |-> title]),
                                whisper |-> [m \in ModelNames |->
                                               IF m = "medium" THEN Some(segs) ELSE None]]
                          ELSE NoEntry]
            /\ req = [r \in Reqs |-> IdleReq]
            /\ task = [t \in Tasks |->
                         IF t = "t1"
                         THEN [OffTask EXCEPT !.pc = "merge", !.title = Some(title),
                                              !.slides = Some(slides),
                                              !.segs = Some(segs)]
                         ELSE OffTask]
            /\ clr = "idle"
            /\ getr = "idle"
            /\ sub = [s \in Subs |-> OffSub]
            /\ lastResp = NoResp
            /\ started = 1

\* lines 270-286 of the job
NextMerge ==
    \/ \E t \in Tasks : MergeStart(t)
    \/ \E t \in Tasks : MergeDone(t)
    \/ \E t \in Tasks : SetResult(t)
    \/ \E t \in Tasks : SetFilename(t)
    \/ \E t \in Tasks : EmitDone(t)
    \/ \E t \in Tasks : Finally(t)
SpecMerge == InitMerge /\ [][NextMerge]_vars

\* pieces of the URLs that are requested
VideoId ==
    <<"d", "Q", "w", "4", "w", "9", "W", "g", "X", "c", "Q">>
PostId ==
    <<"C", "x", "_", "1", "-", "a">>
ShortLink ==
    <<"y", "o", "u", "t", "u", ".", "b", "e", "/">>
WatchPage ==
    <<"y", "o", "u", "t", "u", "b", "e", ".", "c", "o", "m", "/", "w", "a",
      "t", "c", "h">>
ReelPage ==
    <<"i", "n", "s", "t", "a", "g", "r", "a", "m", ".", "c", "o", "m", "/",
      "r", "e", "e", "l", "/">>
PostPage ==
    <<"i", "n", "s", "t", "a", "g", "r", "a", "m", ".", "c", "o", "m", "/",
      "p", "/">>
TalkPage ==
    <<"e", "x", "a", "m", "p", "l", "e", ".", "c", "o", "m", "/", "t", "a",
      "l", "k">>
Text_v ==
    <<"v", "=">>
Text_si ==
    <<"s", "i", "=", "x">>
Text_t ==
    <<"t", "=", "1">>
Text_feature ==
    <<"f", "e", "a", "t", "u", "r", "e", "=", "s", "h", "a", "r", "e">>
Text_srcv ==
    <<"s", "r", "c", "v", "=", "n", "e", "w", "s", "l", "e", "t", "t", "e",
      "r", "1">>
Text_igshid ==
    <<"i", "g", "s", "h", "i", "d", "=", "a", "b", "c">>

\* URLs with the content each refers to: a video by its id in the v= and the
\* short-link form, a post by its id in the /reel/ and the /p/ form, a page by
\* its address, each bare and with tracking parameters, and malformed input
KeyCases ==
    { [content |-> <<"video", VideoId>>, url |-> ShortLink \o VideoId],
      [content |-> <<"video", VideoId>>, url |-> ShortLink \o VideoId \o <<"?">> \o Text_si],
      [content |-> <<"video", VideoId>>, url |-> WatchPage \o <<"?">> \o Text_v \o VideoId],
      [content |-> <<"video", VideoId>>,
       url |-> WatchPage \o <<"?">> \o Text_v \o VideoId \o <<"&">> \o Text_t],
      [content |-> <<"video", VideoId>>,
       url |-> WatchPage \o <<"?">> \o Text_feature \o <<"&">> \o Text_v \o VideoId],
      [content |-> <<"video", VideoId>>,
       url |-> WatchPage \o <<"?">> \o Text_srcv \o <<"&">> \o Text_v \o VideoId],
      [content |-> <<"post", PostId>>, url |-> ReelPage \o PostId \o <<"/">>],
      [content |-> <<"post", PostId>>,
       url |-> ReelPage \o PostId \o <<"/", "?">> \o Text_igshid],
      [content |-> <<"post", PostId>>, url |-> PostPage \o PostId \o <<"/", "?">> \o Text_si],
      [content |-> <<"page", TalkPage>>, url |-> TalkPage],
      [content |-> <<"page", TalkPage>>, url |-> TalkPage \o <<"?">> \o Text_si],
      [content |-> <<"page", TalkPage>>,
       url |-> TalkPage \o <<"?">> \o Text_si \o <<"?">> \o Text_t],
      [content |-> <<"page", <<>>>>, url |-> <<"?">>],
      [content |-> <<"page", <<":", "/", "/">>>>, url |-> <<":", "/", "/">>],
      [content |-> <<"page", <<Surrogate>>>>, url |-> <<Surrogate>>] }

\* the JSON bodies POST /start is called with for these URLs
KeyInputs ==
    { [url |-> c.url, threshold |-> <<"num", 3>>, model |-> "medium",
       detect_slides |-> TRUE] : c \in KeyCases }

\* the cache keys these requests lead to
KeysOfCases ==
    { _url_hash(c.url) : c \in { d \in KeyCases : ~Raises(_url_hash(d.url)) } }

InitKey ==
    /\ running = FALSE
    /\ events = <<>>
    /\ result = None
    /\ filename = None
    /\ cacheDir = TRUE
    /\ cache = [k \in KeysOfCases |-> NoEntry]
    /\ req = [r \in Reqs |-> IdleReq]
    /\ task = [t \in Tasks |-> OffTask]
    /\ clr = "idle"
    /\ getr = "idle"
    /\ sub = [s \in Subs |-> OffSub]
    /\ lastResp = NoResp
    /\ started = 0

\* one thread that starts jobs for these URLs, and the pipeline
KeyStart == \E data \in KeyInputs : StartAccept("r1", data)
NextKey == KeyStart \/ StartSteps({"r1"}) \/ TaskActs
SpecKey == InitKey /\ [][NextKey]_vars

-----------------------------------------------------------------------------
(* Helpers of the properties *)

Executing == { t \in Tasks : task[t].pc # "off" }

HasKind(log, kind) == \E i \in 1..Len(log) : log[i][1] = kind

EndsJob(e) == e[1] = "done" \/ e[1] = "error"

IsPrefix(a, b) == Len(a) <= Len(b) /\ \A i \in 1..Len(a) : a[i] = b[i]

\* the index of the first done or error event of a log that has one
FirstEnd(log) ==
    CHOOSE i \in 1..Len(log) :
        EndsJob(log[i]) /\ \A j \in 1..(i - 1) : ~EndsJob(log[j])

-----------------------------------------------------------------------------
(* C1..C10 *)

\* C1: at most one pipeline thread executes at any time, under every
\* interleaving of start requests and pipeline steps.
C1_SingleFlight == Cardinality(Executing) <= 1

\* C2: a start request that arrives while a job is running is answered 409
\* whatever its URL and parameters: it is neither accepted nor answered 400 or
\* 500.
C2_ConflictWhileRunning ==
    [][ running =>
          /\ \A r \in Reqs : req[r].pc = "idle" => req'[r].pc = "idle"
          /\ (lastResp'.op = "start" /\ lastResp'.code # 200) => lastResp'.code = 409
      ]_vars

C2_Witness == running /\ lastResp.op = "start" /\ lastResp.code = 409

\* C3: a start request refused with 409 or 400 starts no thread and leaves
\* running, the event log, the result and the file name as they were.
C3_RejectChangesNothing ==
    [][ (lastResp'.op = "start" /\ lastResp'.code \in {400, 409}) =>
          /\ running' = running /\ events' = events
          /\ result' = result /\ filename' = filename
          /\ task' = task /\ req' = req
      ]_vars

C3_Witness ==
    /\ lastResp.op = "start" /\ lastResp.code = 400
    /\ result # None /\ HasKind(events, "done")

\* C4: in every reachable state the result is set exactly when the log of the
\* current job holds a done event.
C4_ResultIffDone == (result # None) <=> HasKind(events, "done")

\* C5: the log holds at most one terminal event, and a terminal event is the
\* last element of the log.
C5_OneTerminalLast ==
    \A i \in 1..Len(events) : EndsJob(events[i]) => i = Len(events)

\* C6: what a subscriber has received is at every moment a prefix of the log
\* of the job it follows (the list its first event came from), so any two
\* subscribers of a job have received a prefix of one another's events.
C6_ReplayIsPrefix ==
    /\ \A s \in Subs : IsPrefix(sub[s].out, List0Of(sub[s]))
    /\ \A s1, s2 \in Subs :
          (sub[s1].out # <<>> /\ sub[s2].out # <<>>
             /\ List0Of(sub[s1]) = List0Of(sub[s2]))
          => IsPrefix(sub[s1].out, sub[s2].out) \/ IsPrefix(sub[s2].out, sub[s1].out)

\* C7: a subscriber has stopped once it has delivered a done or error event,
\* which is then the last thing it delivered; a subscriber that connected when
\* the log already held such an event never waits, delivers the log in order
\* from index 0 and has, when it stops, delivered the log up to and including
\* the first such event.
C7_StopsAtTerminal ==
    \A s \in Subs :
        LET g == sub[s] IN
        /\ \A i \in 1..Len(g.out) :
              EndsJob(g.out[i]) => (i = Len(g.out) /\ g.pc = "ended")
        /\ g.pc = "ended" => (g.out # <<>> /\ EndsJob(g.out[Len(g.out)]))
        /\ g.late =>
              /\ g.pc \in {"loop", "ended"}
              /\ IsPrefix(g.out, ListOf(g))
              /\ g.pc = "ended" =>
                    g.out = SubSeq(ListOf(g), 1, FirstEnd(ListOf(g)))

C7_Witness ==
    \E s \in Subs : sub[s].late /\ sub[s].pc = "ended" /\ Len(sub[s].out) >= 3

\* C8: a clear-cache request that arrives while a job is running is answered
\* 409: it does not go on to remove anything, and the cache directory and its
\* entries are as they were.
C8_ClearRefusedWhileRunning ==
    [][ /\ (running /\ clr = "idle") => clr' = "idle"
        /\ (lastResp'.op = "clear" /\ lastResp'.code = 409) =>
              (running /\ cacheDir' = cacheDir /\ cache' = cache)
      ]_vars

C8_Witness ==
    /\ lastResp.op = "clear" /\ lastResp.code = 409
    /\ \E k \in Keys : cache[k].meta # None

\* the stages of _run_job that read or write the cache directory
CachePcs == {"dl_mkdir", "dl_check", "dl_fetch", "dl_ffmpeg", "dl_meta",
             "tr_check", "tr_run", "tr_write"}

\* C9: between the moment a clear-cache request has passed its check of
\* running and the moment the empty cache directory exists again, no pipeline
\* stage reads or writes the cache.
C9_ClearExcludesPipeline ==
    [][ (clr # "idle") =>
          \A t \in Tasks : task[t].pc \in CachePcs => task'[t] = task[t]
      ]_vars

\* C10: once a stage of the job has failed, the log ends with the one error
\* event and holds no done event, the result is unset, no later stage runs
\* and, when the pipeline thread has ended, the job is not running.
C10_FailureEndsJob ==
    HasKind(events, "error") =>
        /\ events[Len(events)][1] = "error"
        /\ Cardinality({ i \in 1..Len(events) : EndsJob(events[i]) }) = 1
        /\ result = None
        /\ \A t \in Tasks : task[t].pc \in {"off", "finally"}
        /\ (Executing = {} /\ \A r \in Reqs : req[r].pc = "idle") => ~running

-----------------------------------------------------------------------------
(* C11..C20 *)

\* download_video has succeeded for key k and its files are still on disk
Acquired(k) == cache[k].meta # None /\ cache[k].video /\ cache[k].audio

\* C11: when download_video has completed for a key it has recorded the
\* download, the record stays, and a later download_video for that key makes
\* no cache write, runs neither yt-dlp nor ffmpeg, emits "Using cached
\* download." as its one event and returns the recorded paths and title.
C11_AcquireIdempotent ==
    [][ /\ \A t \in Tasks :
              /\ (task[t].pc = "dl_meta" /\ task'[t].pc = "detect")
                 => Acquired(KeyOf(t))'
              /\ (task[t].pc = "dl_mkdir" /\ task'[t] # task[t]
                    /\ Acquired(_url_hash(task[t].args[1].url)))
                 => (disk' = disk /\ events' = events /\ task'[t].pc = "dl_check")
              /\ (task[t].pc = "dl_check" /\ task'[t] # task[t] /\ Acquired(KeyOf(t)))
                 => /\ disk' = disk
                    /\ events' = Append(events, UsingCachedDownload)
                    /\ task'[t].pc = "detect"
                    /\ task'[t].media = Some(MediaPaths(KeyOf(t)))
                    /\ task'[t].title = Some(cache[KeyOf(t)].meta[1].title)
        /\ \A k \in Keys : Acquired(k) => Acquired(k)'
      ]_vars

C11_Witness ==
    /\ events # <<>> /\ events[Len(events)] = UsingCachedDownload
    /\ \E t \in Tasks : task[t].pc = "detect" /\ Acquired(KeyOf(t))

\* text.split("\n")
RECURSIVE SplitLines(_)
SplitLines(text) ==
    IF \A i \in 1..Len(text) : text[i] # "\n" THEN <<text>>
    ELSE LET i == CHOOSE j \in 1..Len(text) :
                     text[j] = "\n" /\ \A k \in 1..(j - 1) : text[k] # "\n"
         IN  <<SubSeq(text, 1, i - 1)>> \o SplitLines(SubSeq(text, i + 1, Len(text)))

\* the lines of a text that are slide markers
MarkerLinesOf(text) ==
    { i \in 1..Len(SplitLines(text)) :
        \E j \in 1..Len(SplitLines(text)[i]) : PrefixAt(SplitLines(text)[i], j, SlideChange) }

ZeroMarkerText ==
    <<"[", "0", "0", ":", "0", "0", ":", "0", "0", "]", " ">> \o SlideChange

\* the condition of section 4.4 step 1
SyntheticExpected(segments, slide_times) ==
    \/ slide_times # <<>> /\ slide_times[1] > 10
    \/ slide_times = <<>> /\ segments # <<>>

\* the step of a job that calls merge_transcript and stores what it returns
Merged(t) == task[t].pc = "set_result" /\ task'[t].pc = "set_filename"

\* C12: the transcript opens with a marker line for time zero that is no input
\* marker exactly when the first of the slide times is after one second or
\* there are segments and no slide times; otherwise it holds the input markers
\* only.  With no slide times and the one segment {0, 3, "Intro"} it is the
\* [00:00:00] marker line followed by "Intro".
C12_SyntheticMarker ==
    [][ \A t \in Tasks : Merged(t) =>
          LET segments == task[t].segs[1]
              slide_times == task[t].slides[1]
              out == result'[1]
          IN  /\ IF SyntheticExpected(segments, slide_times)
                 THEN /\ SplitLines(out)[1] = ZeroMarkerText
                      /\ Cardinality(MarkerLinesOf(out)) = Len(slide_times) + 1
                 ELSE Cardinality(MarkerLinesOf(out)) = Len(slide_times)
              /\ (slide_times = <<>> /\ segments = << Seg(0, 30, Intro) >>)
                    => out = ZeroMarkerText \o <<"\n">> \o Intro \o <<"\n">>
      ]_vars

C12_Witness ==
    /\ result = Some(ZeroMarkerText \o <<"\n">> \o Intro \o <<"\n">>)
    /\ \E t \in Tasks : task[t].pc = "set_filename"

\* a line of the form [HH:MM:SS] --- SLIDE CHANGE ---
IsMarkerText(line) ==
    /\ Len(line) = 11 + Len(SlideChange)
    /\ line[1] = "[" /\ line[4] = ":" /\ line[7] = ":" /\ line[10] = "]" /\ line[11] = " "
    /\ \A i \in {2, 3, 5, 6, 8, 9} : line[i] \in Digits
    /\ PrefixAt(line, 12, SlideChange)

\* C13: the stored transcript ends with a newline; each of its marker lines is
\* [HH:MM:SS] --- SLIDE CHANGE --- alone on its line, the line before it (when
\* there is one) and the line after it (when text follows) are blank; and the
\* text between two markers is one paragraph on one line.
C13_MarkerBlocks ==
    result # None =>
        LET ls == SplitLines(result[1])
            n == Len(ls)
        IN  /\ ls[n] = <<>>
            /\ \A i \in MarkerLinesOf(result[1]) :
                  /\ IsMarkerText(ls[i])
                  /\ i > 1 => ls[i - 1] = <<>>
                  /\ i + 1 < n => ls[i + 1] = <<>>
            /\ \A i \in 1..(n - 1) :
                  (i \notin MarkerLinesOf(result[1]) /\ (i + 1) \notin MarkerLinesOf(result[1]))
                  => (ls[i] = <<>> \/ ls[i + 1] = <<>>)

\* the URL up to its first "?"
UpToQuery(url) ==
    IF \E i \in 1..Len(url) : url[i] = "?"
    THEN SubSeq(url, 1, (CHOOSE i \in 1..Len(url) :
                            url[i] = "?" /\ \A j \in 1..(i - 1) : url[j] # "?") - 1)
    ELSE url

\* C14: _url_hash returns a key for every URL a job is started with, the same
\* key for all URLs of one video or post whatever their link form and their
\* tracking parameters, and for a URL of no known form the digest of the URL up
\* to its first "?".
C14_KeyStable ==
    [][ \A t \in Tasks : (task[t].pc = "dl_mkdir" /\ task'[t] # task[t]) =>
          LET url == task[t].args[1].url
          IN  /\ task'[t].pc = "dl_check"
              /\ task'[t].cache_key # None
              /\ \A c, d \in KeyCases :
                    (c.url = url /\ d.content = c.content)
                    => task'[t].cache_key = Some(_url_hash(d.url))
              /\ \A c \in KeyCases :
                    (c.url = url /\ c.content[1] = "page")
                    => task'[t].cache_key = Some(<<"sha256", UpToQuery(url)>>)
      ]_vars

\* the first segment, in input order, whose midpoint is not before t, or one
\* past the last segment
Place(segments, t) ==
    IF \E i \in 1..Len(segments) : 2 * t <= segments[i].start + segments[i].end
    THEN CHOOSE i \in 1..Len(segments) :
            /\ 2 * t <= segments[i].start + segments[i].end
            /\ \A j \in 1..(i - 1) : 2 * t > segments[j].start + segments[j].end
    ELSE Len(segments) + 1

\* the markers placed before segment i, in their order, then its text, then
\* the same for the segments after it
RECURSIVE ExpectedItems(_, _, _)
ExpectedItems(segments, slide_times, i) ==
    IF i > Len(segments) + 1 THEN <<>>
    ELSE LET here == SelectSeq(slide_times, LAMBDA t : Place(segments, t) = i)
         IN  [k \in 1..Len(here) |-> <<"marker", here[k]>>]
             \o (IF i <= Len(segments) THEN << <<"text", segments[i].text>> >> ELSE <<>>)
             \o ExpectedItems(segments, slide_times, i + 1)

\* the items as lines: a marker on its own line, the texts between two
\* markers on one line
RECURSIVE ExpectedBlocks(_, _)
ExpectedBlocks(items, paragraph) ==
    LET flushed == IF paragraph # <<>> THEN <<paragraph>> ELSE <<>>
    IN  IF items = <<>> THEN flushed
        ELSE IF Head(items)[1] = "marker"
        THEN flushed \o << <<"[">> \o fmt_ts(Head(items)[2]) \o <<"]", " ">> \o SlideChange >>
             \o ExpectedBlocks(Tail(items), <<>>)
        ELSE ExpectedBlocks(Tail(items),
                            IF Head(items)[2] = <<>> THEN paragraph
                            ELSE IF paragraph = <<>> THEN Head(items)[2]
                            ELSE paragraph \o <<" ">> \o Head(items)[2])

NonBlankLines(text) == SelectSeq(SplitLines(text), LAMBDA l : l # <<>>)

SixSecondsMarkerText ==
    <<"[", "0", "0", ":", "0", "0", ":", "0", "6", "]", " ">> \o SlideChange

\* C15: the lines of the transcript are, after the time-zero marker of C12
\* when there is one, every slide time once and in order and every segment
\* text once and in order, each marker directly before the first segment
\* whose midpoint is not before it (after all texts when there is none).
\* Segments {0,5} and {5,10} with the slide time 6.0 give the marker
\* [00:00:06] between the two texts.
C15_MarkerPlacement ==
    [][ \A t \in Tasks : Merged(t) =>
          LET segments == task[t].segs[1]
              slide_times == task[t].slides[1]
              items == (IF SyntheticExpected(segments, slide_times)
                        THEN << <<"marker", 0>> >> ELSE <<>>)
                       \o ExpectedItems(segments, slide_times, 1)
          IN  /\ NonBlankLines(result'[1]) = ExpectedBlocks(items, <<>>)
              /\ (segments = << Seg(0, 50, HelloWorld), Seg(50, 100, SlideTwo) >>
                    /\ slide_times = <<60>>)
                 => NonBlankLines(result'[1]) =
                       <<ZeroMarkerText, HelloWorld, SixSecondsMarkerText, SlideTwo>>
      ]_vars

C15_Witness ==
    /\ result # None
    /\ NonBlankLines(result[1]) = <<ZeroMarkerText, HelloWorld, SixSecondsMarkerText, SlideTwo>>
    /\ \E t \in Tasks : task[t].pc = "set_filename"

\* the places of a pipeline thread before line 276 has stored its result
PreResultPcs == CachePcs \cup {"detect", "scan", "merge", "merge_done", "set_result"}

\* C16: when start() answers 200 the job is running, the log is empty and the
\* result and the file name are unset; and as long as no pipeline thread has
\* come to store its result, the result stays unset and a GET /result that
\* arrives is answered 404.
C16_StartResets ==
    [][ /\ (lastResp'.op = "start" /\ lastResp'.code = 200)
           => (running' /\ events' = <<>> /\ result' = None /\ filename' = None)
        /\ (Executing # {} /\ \A t \in Executing : task[t].pc \in PreResultPcs)
           => /\ result = None
              /\ (getr = "idle" /\ lastResp'.op = "result") => lastResp'.code = 404
      ]_vars

\* start() accepts the request d when no job is running
Acceptable(d) == ~BadThreshold(d) /\ Strip(d.url) # <<>>

\* the job has ended: its thread is gone, its terminal event is the last of
\* the log, running is False and a new start request would be accepted
Terminated ==
    /\ Executing = {} /\ \A r \in Reqs : req[r].pc = "idle"
    /\ ~running
    /\ events # <<>> /\ EndsJob(events[Len(events)])
    /\ \A d \in StartInputs : Acceptable(d) => StartVerdict(running, d) = 0

\* C17: every start request that has passed the checks of start() is
\* followed by a state in which its job has ended; on the way its pipeline
\* thread appends a terminal event in exactly one step, the step that takes
\* it to its finally clause, and no thread takes that step twice.
C17_JobTerminates ==
    /\ (\E r \in Reqs : req[r].pc = "set_running") ~> Terminated
    /\ [][ \A t \in Tasks :
              /\ (task[t].pc # "finally" /\ task'[t].pc = "finally")
                 <=> (task'[t] # task[t] /\ Len(events') = Len(events) + 1
                        /\ EndsJob(events'[Len(events')]))
              /\ task[t].pc = "finally" => task'[t].pc \in {"finally", "off"}
       ]_vars

C17_Witness == Terminated /\ HasKind(events, "done") /\ started = MaxStarts

\* the step of thread t in which a stage fails
Fails(t) ==
    /\ task[t].pc # "finally" /\ task'[t].pc = "finally"
    /\ events'[Len(events')][1] = "error"

DownloadPcs == {"dl_mkdir", "dl_check", "dl_fetch", "dl_ffmpeg", "dl_meta"}

Delivers(s) ==
    /\ sub[s].pc = "loop"
    /\ Len(sub'[s].out) = Len(sub[s].out) + 1

\* C19: the k-th event a subscriber delivers is the k-th element of the list
\* its first event came from: every delivery after the first reads the same
\* list as the first (never the list of a later job at an index above 0), and
\* a subscriber that has stopped has delivered that list up to and including
\* its first terminal event.
C19_NeverSkips ==
    [][ \A s \in Subs :
          /\ Delivers(s) =>
                LET g == sub[s]
                    k == Len(g.out) + 1
                    followed == List0Of(sub'[s])
                IN  /\ g.sent + 1 = k
                    /\ g.out # <<>> => (g.cur = g.cur0 /\ ListOf(g) = List0Of(g))
                    /\ k <= Len(followed)
                    /\ sub'[s].out[k] = followed[k]
          /\ sub'[s].pc = "ended" =>
                LET followed == List0Of(sub'[s])
                IN  /\ \E i \in 1..Len(followed) : EndsJob(followed[i])
                    /\ sub'[s].out = SubSeq(followed, 1, FirstEnd(followed))
      ]_vars

\* the last event of the log is a done or error event
LogEnded(log) == log # <<>> /\ EndsJob(log[Len(log)])

\* an accepted request is between lines 320 and 321: running is already the
\* new job's, the log is still the one of the job before
NewJobAccepted == \E r \in Reqs : req[r].pc = "reset_events"

\* C20: when the last event of the log is a done or error event, running is
\* false (unless it has been set again for a new job whose request has not
\* replaced the log yet), and a start or clear-cache request answered while
\* the log ends so is not answered 409.
C20_TerminalMeansStopped ==
    [][ /\ (LogEnded(events') /\ ~NewJobAccepted') => ~running'
        /\ (LogEnded(events) /\ ~NewJobAccepted /\ lastResp'.op \in {"start", "clear"})
              => lastResp'.code # 409 ]_vars

====
